---- MODULE Spec2Model ----
(***************************************************************************)
(* A model of simple_txtar (src/src/lib.rs): the marker scanner            *)
(* (find_file_marker, try_parse_marker), the archive builder               *)
(* (impl From<&str> for Archive), lookup by name (Archive::get) and        *)
(* rendering (the two fmt::Display impls, fix_trailing_newline).           *)
(*                                                                         *)
(* A text is a sequence of one-character strings.  All characters used are *)
(* ASCII, so a byte offset of the source is an offset into the sequence.   *)
(***************************************************************************)
EXTENDS Integers, Sequences, FiniteSets, TLC

VARIABLES
    input,      \* the text handed to Archive::from
    pass,       \* 0: archive built directly, 1: parsed from input, 2: parsed from out
    pc,         \* "scan", "parsed", "got", "render", "rendered", "panic"
    s,          \* find_file_marker: the slice being scanned
    i,          \* find_file_marker: the offset i into s
    name_after, \* From<&str>: the pending marker, Option<name> (its `after` is s)
    comment,    \* Archive.comment
    files,      \* Archive.files, a sequence of [name, content]
    out,        \* the formatter's buffer
    k,          \* Display for Archive: position of the files iterator
    first,      \* the archive of pass 1, kept while its rendering is parsed
    query,      \* the argument of the last Archive::get
    got,        \* the result of the last Archive::get, {} or {file}
    fault       \* TRUE once a slice operation or a subtraction has panicked

vars == <<input, pass, pc, s, i, name_after, comment, files, out, k, first,
          query, got, fault>>

----------------------------------------------------------------------------
(* Bounds of the model. *)

MaxLines == 3

MaxFiles == 2

----------------------------------------------------------------------------
(* Characters and the constants of lib.rs. *)

NL == "\n"

NEWLINE_MARKER == <<"\n", "-", "-", " ">>

MARKER == <<"-", "-", " ">>

MARKER_END == <<" ", "-", "-">>

MARKER_LEN == Len(MARKER) + Len(MARKER_END)

\* char::is_whitespace, restricted to the characters of the model
IsWhitespace(c) == c \in {" ", "\t", "\n", "\r"}

----------------------------------------------------------------------------
(* str operations used by lib.rs. *)

Take(str, n) == SubSeq(str, 1, n)

Drop(str, n) == SubSeq(str, n + 1, Len(str))

StartsWith(str, pat) == Len(str) >= Len(pat) /\ Take(str, Len(pat)) = pat

EndsWith(str, pat) ==
    Len(str) >= Len(pat) /\ Drop(str, Len(str) - Len(pat)) = pat

\* str::is_empty
IsEmpty(str) == Len(str) = 0

\* str::find: Option<usize> as a set, {} for None and {j} for Some(j), j the
\* offset (from 0) of the first occurrence of pat
Find(str, pat) ==
    LET hits == {j \in 0..(Len(str) - Len(pat)) :
                    SubSeq(str, j + 1, j + Len(pat)) = pat}
    IN  IF hits = {} THEN {}
        ELSE {CHOOSE j \in hits : \A h \in hits : j <= h}

\* the value inside Some
Unwrap(opt) == CHOOSE x \in opt : TRUE

\* str::split_at: panics when mid is past the end of str
SplitAt(str, mid) ==
    IF mid \in 0..Len(str)
    THEN [ok |-> TRUE, fst |-> Take(str, mid), snd |-> Drop(str, mid)]
    ELSE [ok |-> FALSE, fst |-> <<>>, snd |-> <<>>]

RECURSIVE TrimStart(_)
TrimStart(str) ==
    IF str # <<>> /\ IsWhitespace(Head(str)) THEN TrimStart(Tail(str)) ELSE str

RECURSIVE TrimEnd(_)
TrimEnd(str) ==
    IF str # <<>> /\ IsWhitespace(str[Len(str)])
    THEN TrimEnd(Take(str, Len(str) - 1))
    ELSE str

\* a trim that strips the leading whitespace only
TrimStartOnly(str) == TrimStart(str)

\* str::trim
Trim(str) == TrimEnd(TrimStart(str))

----------------------------------------------------------------------------
(* fix_trailing_newline *)

\* a fix_trailing_newline without its test: the newline is always pushed
AlwaysNewline(str) == Append(str, NL)

FixTrailingNewline(str) ==
    IF ~(IsEmpty(str) \/ EndsWith(str, <<NL>>)) THEN Append(str, NL) ELSE str

----------------------------------------------------------------------------
(* try_parse_marker.  The result is None, Some((name, after)) or a panic.  *)

None == [tag |-> "None", name |-> <<>>, after |-> <<>>]

Some(name, after) == [tag |-> "Some", name |-> name, after |-> after]

Panic == [tag |-> "Panic", name |-> <<>>, after |-> <<>>]

\* line 308 without its length test
IsMarkerLineNoLen(line) == EndsWith(line, MARKER_END)

\* line 308 with > for >=
IsMarkerLineStrict(line) == EndsWith(line, MARKER_END) /\ Len(line) > MARKER_LEN

\* line 308 testing for "--" in place of " --"
IsMarkerLineDashes(line) ==
    EndsWith(line, <<"-", "-">>) /\ Len(line) >= MARKER_LEN

\* line 308: the test on the candidate line
IsMarkerLine(line) == EndsWith(line, MARKER_END) /\ Len(line) >= MARKER_LEN

\* lines 312-315.  s.len() - MARKER_END.len() is a usize subtraction: below
\* zero it panics (overflow checks on) or wraps to an offset past the end, on
\* which split_at panics; either way the call panics.  The result is {name},
\* or {} for a panic.
MarkerName(line) ==
    IF Len(MARKER) > Len(line) THEN {}
    ELSE IF Len(line) - Len(MARKER) - Len(MARKER_END) < 0 THEN {}
    ELSE {Trim(SplitAt(SplitAt(line, Len(MARKER)).snd,
                       Len(line) - Len(MARKER) - Len(MARKER_END)).fst)}

\* lines 300-306: the first line of str and what follows its newline
LineAndAfter(str) ==
    LET nl == Find(str, <<NL>>)
    IN  IF nl = {} THEN [ok |-> TRUE, line |-> str, after |-> <<>>]
        ELSE LET cut == SplitAt(str, Unwrap(nl))
                 rest == SplitAt(cut.snd, 1)   \* consume the newline
             IN  [ok |-> cut.ok /\ rest.ok, line |-> cut.fst,
                  after |-> rest.snd]

\* lines 308-315, la the line and the text after it
MarkerOf(la) ==
    IF ~la.ok THEN Panic
    ELSE IF ~IsMarkerLine(la.line) THEN None
    ELSE IF MarkerName(la.line) = {} THEN Panic
    ELSE Some(Unwrap(MarkerName(la.line)), la.after)

\* lines 295-316 (the set binds la to the value of LineAndAfter(str))
TryParseMarker(str) ==
    IF ~StartsWith(str, MARKER) THEN None
    ELSE Unwrap({MarkerOf(la) : la \in {LineAndAfter(str)}})

----------------------------------------------------------------------------
(* find_file_marker, one iteration of its loop per step. *)

\* line 290 returning s as it is
LastTextUnfixed(str) == str

\* line 290: the text returned when no marker line is left
LastText(str) == FixTrailingNewline(str)

\* line 289 as i = j + 1: the offset is taken from the start of the slice
RestartOffset(i0, j) == j + 1

\* line 289: i += j + 1
NextOffset(i0, j) == i0 + j + 1

\* lines 217-220 and 225: what the builder does with the text returned by
\* find_file_marker: the first call gives the comment, a later one the
\* content of the pending file
Attach(text) ==
    IF name_after = {}
    THEN comment' = text /\ UNCHANGED files
    ELSE /\ files' = Append(files,
                            [name |-> Unwrap(name_after), content |-> text])
         /\ UNCHANGED comment

\* lines 282-286: the slice at i is a marker line; find_file_marker returns
\* (before, Some((name, after))) and the builder goes on with `after`
MarkerFound ==
    /\ pc = "scan"
    /\ \E cut \in {SplitAt(s, i)} :
       \E r \in {TryParseMarker(cut.snd)} :
           /\ ~cut.ok \/ r.tag # "None"
           /\ IF ~cut.ok \/ r.tag = "Panic"
              THEN /\ fault' = TRUE
                   /\ pc' = "panic"
                   /\ UNCHANGED <<s, i, name_after, comment, files>>
              ELSE /\ Attach(cut.fst)
                   /\ name_after' = {r.name}
                   /\ s' = r.after
                   /\ i' = 0
                   /\ UNCHANGED <<pc, fault>>
    /\ UNCHANGED <<input, pass, out, k, first, query, got>>

\* lines 288-289: no marker line at i, and a later "\n-- " at offset j
SkipCandidate ==
    /\ pc = "scan"
    /\ \E cut \in {SplitAt(s, i)} :
       \E r \in {TryParseMarker(cut.snd)} :
       \E found \in {Find(cut.snd, NEWLINE_MARKER)} :
           /\ cut.ok
           /\ r.tag = "None"
           /\ found # {}
           /\ i' = NextOffset(i, Unwrap(found))
    /\ UNCHANGED <<input, pass, pc, s, name_after, comment, files, out, k,
                   first, query, got, fault>>

\* line 290: no marker line in the rest of the slice; find_file_marker
\* returns (fix_trailing_newline(s), None) and the builder's loop ends
NoMarker ==
    /\ pc = "scan"
    /\ \E cut \in {SplitAt(s, i)} :
       \E r \in {TryParseMarker(cut.snd)} :
       \E found \in {Find(cut.snd, NEWLINE_MARKER)} :
           /\ cut.ok
           /\ r.tag = "None"
           /\ found = {}
    /\ Attach(LastText(s))
    /\ name_after' = {}
    /\ pc' = "parsed"
    /\ UNCHANGED <<input, pass, s, i, out, k, first, query, got, fault>>

----------------------------------------------------------------------------
(* Archive::get *)

\* Iterator::find over files.iter(), from position n on
RECURSIVE IterFind(_, _, _)
IterFind(fs, filename, n) ==
    IF n > Len(fs) THEN {}
    ELSE IF fs[n].name = filename THEN {fs[n]}
    ELSE IterFind(fs, filename, n + 1)

\* a lookup that returns the last file of that name
GetFileLast(fs, filename) ==
    LET hits == {n \in 1..Len(fs) : fs[n].name = filename}
    IN  IF hits = {} THEN {}
        ELSE {fs[CHOOSE n \in hits : \A m \in hits : m <= n]}

GetFile(fs, filename) == IterFind(fs, filename, 1)

\* the names asked for
QueryNames == {<<>>, <<"a">>, <<"b">>, <<"z">>}

Get(filename) ==
    /\ pc = "parsed"
    /\ pass = 1
    /\ query' = filename
    /\ got' = GetFile(files, filename)
    /\ pc' = "got"
    /\ UNCHANGED <<input, pass, s, i, name_after, comment, files, out, k,
                   first, fault>>

----------------------------------------------------------------------------
(* Rendering: Display for Archive and Display for File. *)

\* line 264 with write! for writeln!
MarkerLineNoNewline(name) == MARKER \o name \o MARKER_END

\* line 264: writeln!(f, "-- {} --", self.name)
MarkerLineOf(name) == MARKER \o name \o MARKER_END \o <<NL>>

\* lines 263-266 writing the content as it is
FileDisplayRaw(file) == MarkerLineOf(file.name) \o file.content

\* lines 263-266
FileDisplay(file) == MarkerLineOf(file.name) \o FixTrailingNewline(file.content)

\* line 102
RenderComment ==
    /\ pc = "parsed"
    /\ pass \in {0, 1}
    /\ out' = FixTrailingNewline(comment)
    /\ k' = 1
    /\ pc' = "render"
    /\ UNCHANGED <<input, pass, s, i, name_after, comment, files, first,
                   query, got, fault>>

\* lines 103-105, one file per step
RenderFile ==
    /\ pc = "render"
    /\ k <= Len(files)
    /\ out' = out \o FileDisplay(files[k])
    /\ k' = k + 1
    /\ UNCHANGED <<input, pass, pc, s, i, name_after, comment, files, first,
                   query, got, fault>>

\* line 107
RenderDone ==
    /\ pc = "render"
    /\ k > Len(files)
    /\ pc' = "rendered"
    /\ UNCHANGED <<input, pass, s, i, name_after, comment, files, out, k,
                   first, query, got, fault>>

\* Archive::from(a.to_string()): lines 216-220 on the rendered text
Reparse ==
    /\ pc = "rendered"
    /\ pass = 1
    /\ first' = [comment |-> comment, files |-> files]
    /\ pass' = 2
    /\ s' = out
    /\ i' = 0
    /\ name_after' = {}
    /\ comment' = <<>>
    /\ files' = <<>>
    /\ pc' = "scan"
    /\ UNCHANGED <<input, out, k, query, got, fault>>

----------------------------------------------------------------------------
(* The inputs: up to MaxLines lines joined by newlines, and the examples   *)
(* of the documentation and the tests.                                     *)

\* tests::SIMPLE_ARCHIVE, lines 322-336
SIMPLE_ARCHIVE ==
    <<"c", "o", "m", "m", "e", "n", "t", "1", "\n", "c", "o", "m", "m", "e",
      "n", "t", "2", "\n", "-", "-", " ", "f", "i", "l", "e", "1", " ", "-",
      "-", "\n", "F", "i", "l", "e", " ", "1", " ", "t", "e", "x", "t", ".",
      "\n", "-", "-", " ", "f", "o", "o", " ", "-", "-", "-", "\n", "M", "o",
      "r", "e", " ", "f", "i", "l", "e", " ", "1", " ", "t", "e", "x", "t",
      ".", "\n", "-", "-", " ", "f", "i", "l", "e", " ", "2", " ", "-", "-",
      "\n", "F", "i", "l", "e", " ", "2", " ", "t", "e", "x", "t", ".", "\n",
      "-", "-", " ", "e", "m", "p", "t", "y", " ", "-", "-", "\n", "-", "-",
      " ", "n", "o", "N", "L", " ", "-", "-", "\n", "h", "e", "l", "l", "o",
      " ", "w", "o", "r", "l", "d", "\n", "-", "-", " ", "e", "m", "p", "t",
      "y", " ", "f", "i", "l", "e", "n", "a", "m", "e", " ", "l", "i", "n",
      "e", " ", "-", "-", "\n", "s", "o", "m", "e", " ", "c", "o", "n", "t",
      "e", "n", "t", "\n", "-", "-", " ", "-", "-">>

\* tests::simple_parse, lines 355-364: the archive SIMPLE_ARCHIVE must parse to
SimpleParseComment ==
    <<"c", "o", "m", "m", "e", "n", "t", "1", "\n", "c", "o", "m", "m", "e",
      "n", "t", "2", "\n">>

SimpleParseFiles ==
    <<[name |->
         <<"f", "i", "l", "e", "1">>,
        content |->
         <<"F", "i", "l", "e", " ", "1", " ", "t", "e", "x", "t", ".", "\n",
           "-", "-", " ", "f", "o", "o", " ", "-", "-", "-", "\n", "M", "o",
           "r", "e", " ", "f", "i", "l", "e", " ", "1", " ", "t", "e", "x",
           "t", ".", "\n">>],
       [name |->
         <<"f", "i", "l", "e", " ", "2">>,
        content |->
         <<"F", "i", "l", "e", " ", "2", " ", "t", "e", "x", "t", ".", "\n">>],
       [name |->
         <<"e", "m", "p", "t", "y">>,
        content |->
         <<>>],
       [name |->
         <<"n", "o", "N", "L">>,
        content |->
         <<"h", "e", "l", "l", "o", " ", "w", "o", "r", "l", "d", "\n">>],
       [name |->
         <<"e", "m", "p", "t", "y", " ", "f", "i", "l", "e", "n", "a", "m",
           "e", " ", "l", "i", "n", "e">>,
        content |->
         <<"s", "o", "m", "e", " ", "c", "o", "n", "t", "e", "n", "t", "\n",
           "-", "-", " ", "-", "-", "\n">>]>>

\* tests::simple_format, lines 373-381: the archive that is rendered
SimpleFormatFiles ==
    <<[name |->
         <<"f", "i", "l", "e", "1">>,
        content |->
         <<"F", "i", "l", "e", " ", "1", " ", "t", "e", "x", "t", ".", "\n",
           "-", "-", " ", "f", "o", "o", " ", "-", "-", "-", "\n", "M", "o",
           "r", "e", " ", "f", "i", "l", "e", " ", "1", " ", "t", "e", "x",
           "t", ".", "\n">>],
       [name |->
         <<"f", "i", "l", "e", " ", "2">>,
        content |->
         <<"F", "i", "l", "e", " ", "2", " ", "t", "e", "x", "t", ".", "\n">>],
       [name |->
         <<"e", "m", "p", "t", "y">>,
        content |->
         <<>>],
       [name |->
         <<"n", "o", "N", "L">>,
        content |->
         <<"h", "e", "l", "l", "o", " ", "w", "o", "r", "l", "d">>]>>

\* tests::SIMPLE_FORMAT_OUTPUT, lines 338-350
SIMPLE_FORMAT_OUTPUT ==
    <<"c", "o", "m", "m", "e", "n", "t", "1", "\n", "c", "o", "m", "m", "e",
      "n", "t", "2", "\n", "-", "-", " ", "f", "i", "l", "e", "1", " ", "-",
      "-", "\n", "F", "i", "l", "e", " ", "1", " ", "t", "e", "x", "t", ".",
      "\n", "-", "-", " ", "f", "o", "o", " ", "-", "-", "-", "\n", "M", "o",
      "r", "e", " ", "f", "i", "l", "e", " ", "1", " ", "t", "e", "x", "t",
      ".", "\n", "-", "-", " ", "f", "i", "l", "e", " ", "2", " ", "-", "-",
      "\n", "F", "i", "l", "e", " ", "2", " ", "t", "e", "x", "t", ".", "\n",
      "-", "-", " ", "e", "m", "p", "t", "y", " ", "-", "-", "\n", "-", "-",
      " ", "n", "o", "N", "L", " ", "-", "-", "\n", "h", "e", "l", "l", "o",
      " ", "w", "o", "r", "l", "d", "\n">>

\* "-- --\n-- x --\nhi"
ShortMarkerText ==
    <<"-", "-", " ", "-", "-", "\n", "-", "-", " ", "x", " ", "-", "-", "\n",
      "h", "i">>

\* "--  --\n-- x --\nhi"
EmptyNameText ==
    <<"-", "-", " ", " ", "-", "-", "\n", "-", "-", " ", "x", " ", "-", "-",
      "\n", "h", "i">>

\* "c\n-- a --\n1\n-- b --\n2\n"
OrderText ==
    <<"c", "\n", "-", "-", " ", "a", " ", "-", "-", "\n", "1", "\n", "-",
      "-", " ", "b", " ", "-", "-", "\n", "2", "\n">>

\* "-- x --\nhello"
NoFinalNewlineText ==
    <<"-", "-", " ", "x", " ", "-", "-", "\n", "h", "e", "l", "l", "o">>

\* "--   foo bar   --"
PaddedNameText ==
    <<"-", "-", " ", " ", " ", "f", "o", "o", " ", "b", "a", "r", " ", " ",
      " ", "-", "-">>

Examples ==
    {SIMPLE_ARCHIVE, ShortMarkerText, EmptyNameText, OrderText,
     NoFinalNewlineText, PaddedNameText}

LineKinds ==
    { <<>>,
      <<"a">>,
      <<"-", "-", " ", "a", " ", "-", "-">>,
      <<"-", "-", " ", "b", " ", "-", "-">>,
      <<"-", "-", " ", " ", "a", " ", "b", "\t", " ", "-", "-">>,
      <<"-", "-", " ", " ", "-", "-">>,
      <<"-", "-", " ", "-", "-">>,
      <<"-", "-", " ", "a", " ", "-", "-", "-">>,
      <<"-", "-", " ">>,
      <<" ", "-", "-", " ", "a", " ", "-", "-">> }

RECURSIVE Join(_)
Join(ls) ==
    IF ls = <<>> THEN <<>>
    ELSE IF Len(ls) = 1 THEN ls[1]
    ELSE ls[1] \o <<NL>> \o Join(Tail(ls))

Generated ==
    {Join(ls) : ls \in UNION {[1..n -> LineKinds] : n \in 0..MaxLines}}

Inputs == Generated \cup Examples

NoArchive == [comment |-> <<>>, files |-> <<>>]

\* Archive::from(text), lines 216-220: the first call of find_file_marker
InitWith(text) ==
    /\ input = text
    /\ pass = 1
    /\ pc = "scan"
    /\ s = text
    /\ i = 0
    /\ name_after = {}
    /\ comment = <<>>
    /\ files = <<>>
    /\ out = <<>>
    /\ k = 0
    /\ first = NoArchive
    /\ query = <<>>
    /\ got = {}
    /\ fault = FALSE

Init == \E text \in Inputs : InitWith(text)

Next ==
    \/ MarkerFound
    \/ SkipCandidate
    \/ NoMarker
    \/ \E filename \in QueryNames : Get(filename)
    \/ RenderComment
    \/ RenderFile
    \/ RenderDone
    \/ Reparse

Spec == Init /\ [][Next]_vars

----------------------------------------------------------------------------
(* Parsing alone.  Archive::from is one sequential loop: once called, it   *)
(* takes its next step until it returns, which is weak fairness of its     *)
(* steps.                                                                  *)

NextParse ==
    \/ MarkerFound
    \/ SkipCandidate
    \/ NoMarker

\* the lines that matter to the scan: text, marker lines and the candidates
\* that fail validation
ScanKinds ==
    LineKinds \ { <<"-", "-", " ", "b", " ", "-", "-">>,
                  <<"-", "-", " ", " ", "a", " ", "b", "\t", " ", "-", "-">>,
                  <<" ", "-", "-", " ", "a", " ", "-", "-">> }

ScanInputs ==
    {Join(ls) : ls \in UNION {[1..n -> ScanKinds] : n \in 0..MaxLines}}
        \cup Examples

InitScan == \E text \in ScanInputs : InitWith(text)

LiveSpec == InitScan /\ [][NextParse]_vars /\ WF_vars(NextParse)

----------------------------------------------------------------------------
(* Rendering an archive that was built directly (the fields of File are    *)
(* public, and tests::simple_format builds its archive field by field):    *)
(* any comment and any contents, not only those a parse produces.          *)

Texts == {<<>>, <<"a">>, <<"a", "\n">>, <<"\n", "\n">>, <<"-", "-", " ">>}

Names == {<<>>, <<"a">>, <<" ", "a", " ", "b">>}

BuiltFiles ==
    UNION {[1..n -> [name : Names, content : Texts]] : n \in 0..MaxFiles}
        \cup {SimpleFormatFiles}

InitRender ==
    /\ input = <<>>
    /\ pass = 0
    /\ pc = "parsed"
    /\ s = <<>>
    /\ i = 0
    /\ name_after = {}
    /\ comment \in Texts \cup {SimpleParseComment}
    /\ files \in BuiltFiles
    /\ out = <<>>
    /\ k = 0
    /\ first = NoArchive
    /\ query = <<>>
    /\ got = {}
    /\ fault = FALSE

NextRender ==
    \/ RenderComment
    \/ RenderFile
    \/ RenderDone

SpecRender == InitRender /\ [][NextRender]_vars

----------------------------------------------------------------------------
(* The format, line by line.  These definitions restate the txtar format  *)
(* over the lines of a text, independently of offsets into it; the        *)
(* properties below compare the scanner's results with them.               *)

\* N(x): x when x is empty or ends with a newline, else x and a newline
Normal(x) == IF x = <<>> \/ x[Len(x)] = NL THEN x ELSE x \o <<NL>>

EmptyOrNewlineEnded(x) == x = <<>> \/ x[Len(x)] = NL

\* the lines of a text; Join(LinesOf(text)) = text
RECURSIVE LinesOf(_)
LinesOf(text) ==
    LET nls == {j \in 1..Len(text) : text[j] = NL}
    IN  IF nls = {} THEN <<text>>
        ELSE LET j == CHOOSE x \in nls : \A y \in nls : x <= y
             IN  <<SubSeq(text, 1, j - 1)>>
                     \o LinesOf(SubSeq(text, j + 1, Len(text)))

\* a line "-- " + X + " --"
WellFormedMarker(line) ==
    /\ Len(line) >= Len(MARKER) + Len(MARKER_END)
    /\ StartsWith(line, MARKER)
    /\ EndsWith(line, MARKER_END)

\* the X of a line "-- " + X + " --"
RawName(line) == SubSeq(line, Len(MARKER) + 1, Len(line) - Len(MARKER_END))

\* x without its leading and trailing whitespace
Stripped(x) ==
    LET solid == {j \in 1..Len(x) : ~IsWhitespace(x[j])}
    IN  IF solid = {} THEN <<>>
        ELSE SubSeq(x, CHOOSE a \in solid : \A j \in solid : a <= j,
                       CHOOSE b \in solid : \A j \in solid : j <= b)

\* a line that starts like a marker line and does not end like one
FalseCandidate(line) == StartsWith(line, MARKER) /\ ~EndsWith(line, MARKER_END)

MarkerLinesOf(text) == SelectSeq(LinesOf(text), WellFormedMarker)

\* the positions of the marker lines among the lines L
MarkerIdx(L) == {n \in 1..Len(L) : WellFormedMarker(L[n])}

\* the position of the p-th marker line (p from 1)
NthMarker(L, p) ==
    CHOOSE n \in MarkerIdx(L) : Cardinality({m \in MarkerIdx(L) : m <= n}) = p

\* the text of piece p of the lines L: piece 0 is what precedes the first
\* marker line, piece p what follows the p-th marker line, up to the next
\* marker line or the end
RefPiece(L, p) ==
    LET last == p = Cardinality(MarkerIdx(L))
        a == IF p = 0 THEN 1 ELSE NthMarker(L, p) + 1
        b == IF last THEN Len(L) ELSE NthMarker(L, p + 1) - 1
    IN  IF a > b THEN <<>>
        ELSE IF last THEN Normal(Join(SubSeq(L, a, b)))
        ELSE Join(SubSeq(L, a, b)) \o <<NL>>

\* the text with every marker line rewritten as "-- " + stripped name + " --"
\* and a final newline supplied
CanonText(text) ==
    LET L == LinesOf(text)
        C == [n \in 1..Len(L) |->
                 IF WellFormedMarker(L[n])
                 THEN MARKER \o Stripped(RawName(L[n])) \o MARKER_END
                 ELSE L[n]]
    IN  Normal(Join(C))

\* piece p of the archive being built
Piece(p) == IF p = 0 THEN comment ELSE files[p].content

\* the rendering rule, file by file
RECURSIVE RuleFiles(_)
RuleFiles(fs) ==
    IF fs = <<>> THEN <<>>
    ELSE MARKER \o fs[1].name \o MARKER_END \o <<NL>>
             \o Normal(fs[1].content) \o RuleFiles(Tail(fs))

File(name, content) == [name |-> name, content |-> content]

----------------------------------------------------------------------------
(* Properties. *)

\* C1: parsing never panics: every split offset is inside the slice it
\* splits, and the subtraction s.len() - MARKER_END.len() is never below
\* zero.
Totality ==
    /\ fault = FALSE
    /\ pc # "panic"
    /\ pc = "scan" =>
          /\ i \in 0..Len(s)
          /\ LET la == LineAndAfter(Drop(s, i))
             IN  /\ la.ok
                 /\ (StartsWith(la.line, MARKER) /\ IsMarkerLine(la.line)) =>
                        Len(la.line) - Len(MARKER) - Len(MARKER_END) >= 0

WitTotality ==
    /\ pass = 1
    /\ pc = "parsed"
    /\ fault = FALSE
    /\ \E n \in 1..Len(LinesOf(input)) : LinesOf(input)[n] = MARKER
    /\ \E n \in 1..Len(LinesOf(input)) :
           LinesOf(input)[n] = <<"-", "-", " ", "-", "-">>

\* C2: parsing the rendering of a parsed archive gives that archive back.
RoundTrip ==
    (pass = 2 /\ pc = "parsed") =>
        [comment |-> comment, files |-> files] = first

WitRoundTrip ==
    /\ pass = 2
    /\ pc = "parsed"
    /\ Len(files) >= 2
    /\ out # input
    /\ first.files = files

\* C3 as claimed: the 5-character line "-- --" is a marker line with the
\* empty name, so "-- --\n-- x --\nhi" gives the files ("", "") and
\* ("x", "hi\n").
ShortMarkerIsMarker ==
    (input = ShortMarkerText /\ pass = 1 /\ pc = "parsed") =>
        files = <<File(<<>>, <<>>), File(<<"x">>, <<"h", "i", NL>>)>>

\* C3 as amended: "-- --" is no marker line and stays text, so
\* "-- --\n-- x --\nhi" gives the comment "-- --\n" and the one file
\* ("x", "hi\n"); the marker line with the empty name is "--  --" (6
\* characters), and "--  --\n-- x --\nhi" gives ("", "") and ("x", "hi\n").
\* Among the lines that both start with "-- " and end with " --", exactly
\* the lines "-- --" start no file.
ShortMarkerIsText ==
    (pass = 1 /\ pc \in {"parsed", "panic"}) =>
        /\ input = ShortMarkerText =>
              /\ pc = "parsed"
              /\ comment = <<"-", "-", " ", "-", "-", NL>>
              /\ files = <<File(<<"x">>, <<"h", "i", NL>>)>>
        /\ input = EmptyNameText =>
              /\ pc = "parsed"
              /\ comment = <<>>
              /\ files = <<File(<<>>, <<>>), File(<<"x">>, <<"h", "i", NL>>)>>
        /\ LET L == LinesOf(input)
           IN  Len(files) =
                   Cardinality({n \in 1..Len(L) :
                                   /\ StartsWith(L[n], MARKER)
                                   /\ EndsWith(L[n], MARKER_END)
                                   /\ L[n] # <<"-", "-", " ", "-", "-">>})

WitShortMarker ==
    /\ input = ShortMarkerText
    /\ pass = 1
    /\ pc = "parsed"
    /\ Len(files) = 1

\* C4 as claimed: the rendering of the parsed archive is the input, but for
\* a final newline supplied.
LosslessExact ==
    (pass = 1 /\ pc = "rendered") => out = Normal(input)

\* C4 as amended: the rendering of the parsed archive is the input with a
\* final newline supplied and with every marker line "-- " + X + " --"
\* rewritten as "-- " + stripped X + " --"; nothing else changes.
LosslessUpToNames ==
    (pass = 1 /\ pc = "rendered") => out = CanonText(input)

WitLossless ==
    /\ pass = 1
    /\ pc = "rendered"
    /\ Len(files) >= 1
    /\ out # Normal(input)
    /\ out = CanonText(input)

\* C5: a line that starts with "-- " and does not end with " --" starts no
\* file: it stays, in place, in the piece (comment or content) it lies in,
\* and the marker lines after it are still found.
FalsePositiveRejected ==
    (pass = 1 /\ pc = "parsed") =>
        /\ LET L == LinesOf(input)
           IN  \A n \in 1..Len(L) :
                   FalseCandidate(L[n]) =>
                       LET p == Cardinality({m \in MarkerIdx(L) : m < n})
                       IN  /\ Len(files) = Cardinality(MarkerIdx(L))
                           /\ Piece(p) = RefPiece(L, p)
        /\ input = SIMPLE_ARCHIVE => files = SimpleParseFiles

WitFalsePositive ==
    /\ pass = 1
    /\ pc = "parsed"
    /\ Len(files) = 2
    /\ LET L == LinesOf(input)
       IN  /\ Len(L) = 3
           /\ WellFormedMarker(L[1])
           /\ FalseCandidate(L[2])
           /\ WellFormedMarker(L[3])

\* C6: the comment and every content are empty or end with a newline; a
\* last line without a newline gets one; a marker line that is the last
\* line gives a file with empty content.
TrailingNewlineInvariant ==
    /\ EmptyOrNewlineEnded(comment)
    /\ \A n \in 1..Len(files) : EmptyOrNewlineEnded(files[n].content)
    /\ (pass = 1 /\ pc = "parsed") =>
          /\ input = NoFinalNewlineText =>
                files = <<File(<<"x">>, <<"h", "e", "l", "l", "o", NL>>)>>
          /\ LET L == LinesOf(input)
                 z == Len(L)
             IN  (\/ WellFormedMarker(L[z])
                  \/ (z >= 2 /\ L[z] = <<>> /\ WellFormedMarker(L[z - 1]))) =>
                     (Len(files) >= 1 /\ files[Len(files)].content = <<>>)

WitTrailingNewline ==
    /\ pass = 1
    /\ pc = "parsed"
    /\ input = NoFinalNewlineText
    /\ files[1].content = <<"h", "e", "l", "l", "o", NL>>

\* C7: the rendering of any archive is N(comment) followed, for each file in
\* order, by "-- " + name + " --", a newline and N(content).
RenderingRule ==
    /\ pc = "rendered" => out = Normal(comment) \o RuleFiles(files)
    /\ pc = "render" =>
          out = Normal(comment) \o RuleFiles(SubSeq(files, 1, k - 1))

WitRenderingRule ==
    /\ pass = 0
    /\ pc = "rendered"
    /\ comment # <<>>
    /\ ~EmptyOrNewlineEnded(comment)
    /\ Len(files) = 2
    /\ files[1].content = <<>>
    /\ ~EmptyOrNewlineEnded(files[2].content)

\* C8: the name of a file is the X of its marker line "-- " + X + " --"
\* without its leading and trailing whitespace, the rest of X unchanged.
NameStripping ==
    pass = 1 =>
        LET ML == MarkerLinesOf(input)
        IN  /\ Len(files) + Cardinality(name_after) <= Len(ML)
            /\ \A n \in 1..Len(files) :
                   /\ files[n].name = Stripped(RawName(ML[n]))
                   /\ files[n].name # <<>> =>
                          /\ ~IsWhitespace(files[n].name[1])
                          /\ ~IsWhitespace(files[n].name[Len(files[n].name)])
            /\ name_after # {} =>
                   Unwrap(name_after) = Stripped(RawName(ML[Len(files) + 1]))
            /\ (input = PaddedNameText /\ pc = "parsed") =>
                   /\ Len(files) = 1
                   /\ files[1].name = <<"f", "o", "o", " ", "b", "a", "r">>

WitNameStripping ==
    /\ pass = 1
    /\ pc = "parsed"
    /\ Len(files) >= 1
    /\ files[1].name = <<"a", " ", "b">>
    /\ RawName(MarkerLinesOf(input)[1]) = <<" ", "a", " ", "b", "\t">>

\* C9: the files are in the order of their marker lines, equal names are
\* all kept, the comment is the text before the first marker line, and
\* get(name) is the first file of that name, or nothing.
OrderAndLookup ==
    (pass = 1 /\ pc \in {"parsed", "got"}) =>
        LET L == LinesOf(input)
            ML == MarkerLinesOf(input)
            hits == {n \in 1..Len(files) : files[n].name = query}
        IN  /\ Len(files) = Len(ML)
            /\ \A n \in 1..Len(files) :
                   /\ files[n].name = Stripped(RawName(ML[n]))
                   /\ files[n].content = RefPiece(L, n)
            /\ comment = RefPiece(L, 0)
            /\ pc = "got" =>
                   got = IF hits = {} THEN {}
                         ELSE {files[CHOOSE n \in hits : \A m \in hits : n <= m]}
            /\ input = OrderText =>
                   /\ comment = <<"c", NL>>
                   /\ files = <<File(<<"a">>, <<"1", NL>>),
                                File(<<"b">>, <<"2", NL>>)>>
                   /\ (pc = "got" /\ query = <<"b">>) =>
                          got = {File(<<"b">>, <<"2", NL>>)}
                   /\ (pc = "got" /\ query = <<"z">>) => got = {}

WitOrderAndLookup ==
    /\ pass = 1
    /\ pc = "got"
    /\ Len(files) = 2
    /\ files[1].name = query
    /\ files[2].name = query
    /\ files[1].content # files[2].content
    /\ got = {files[1]}

\* C10: in find_file_marker i grows at every skipped candidate and stays
\* within the slice; every next slice is a strictly shorter suffix of the
\* previous one; the builder takes at most one iteration per marker line;
\* and the parse reaches its end.
ScanTerminates ==
    /\ [][(pc = "scan" /\ pc' = "scan" /\ s' = s) => i' > i]_vars
    /\ [][(pc = "scan" /\ s' # s) =>
              (Len(s') < Len(s) /\ EndsWith(s, s') /\ i' = 0)]_vars
    /\ [](pc = "scan" => i <= Len(s))
    /\ [](Len(files) + Cardinality(name_after) <= Len(MarkerLinesOf(input)))
    /\ <>(pc = "parsed")

WitScanTerminates ==
    /\ pc = "parsed"
    /\ Len(files) = 2
    /\ \E n \in 1..Len(LinesOf(input)) : FalseCandidate(LinesOf(input)[n])

====
